---- MODULE Spec2Model ----
(***************************************************************************)
(* hapi-postcss: the css file handler, the css toolkit method and the      *)
(* cssdirectory handler, with the process-wide artifact cache.             *)
(*                                                                         *)
(* Strings that the code inspects character by character (paths) are      *)
(* sequences of one-character strings: "/a/x" is <<"/", "a", "/", "x">>.   *)
(***************************************************************************)
EXTENDS Integers, Sequences, FiniteSets, TLC

VARIABLES
    cache,      \* the ArtifactCache: inMemoryCache.cache, key -> stored value
    files,      \* the file system: path -> [exists, mtime]
    touches,    \* how many times a file was modified so far
    resp,       \* the response objects created so far, by id
    req,        \* the requests started so far, by id
    pIn,        \* the inputs of one path resolution
    pOut        \* its result

vars == <<cache, files, touches, resp, req, pIn, pOut>>

(***************************************************************************)
(* Bounds of the model.                                                    *)
(***************************************************************************)
MaxPathLen == 4
MaxRequests == 2
MaxTouches == 1
MaxStart == 1

(***************************************************************************)
(* JavaScript values that are not strings.                                 *)
(***************************************************************************)
\* null and undefined where a path is expected (the key that cache.get(undefined)
\* looks up is the string "undefined").
Null == <<"null">>
Undefined == <<"undefined">>

\* undefined, and a defined value n, where a number or a header value is expected.
Undef == [k |-> "undefined", v |-> 0]
Val(n) == [k |-> "value", v |-> n]

(***************************************************************************)
(* Node's posix path functions, as file.js uses them.                      *)
(***************************************************************************)
RECURSIVE SplitAcc(_, _, _)
SplitAcc(s, cur, acc) ==
    IF s = <<>> THEN Append(acc, cur)
    ELSE IF Head(s) = "/" THEN SplitAcc(Tail(s), <<>>, Append(acc, cur))
    ELSE SplitAcc(Tail(s), Append(cur, Head(s)), acc)

\* s.split("/")
Split(s) == SplitAcc(s, <<>>, <<>>)

RECURSIVE JoinSegs(_)
\* segs.join("/")
JoinSegs(segs) ==
    IF segs = <<>> THEN <<>>
    ELSE IF Len(segs) = 1 THEN segs[1]
    ELSE segs[1] \o <<"/">> \o JoinSegs(Tail(segs))

RECURSIVE NormalizeSegs(_, _, _)
\* The segment stack normalizeString keeps: empty and "." segments are dropped,
\* ".." removes the segment before it, or stays when there is none to remove
\* and the path is relative.
NormalizeSegs(segs, allowAboveRoot, res) ==
    IF segs = <<>> THEN res
    ELSE LET seg == Head(segs)
             rest == Tail(segs)
         IN IF seg = <<>> \/ seg = <<".">>
            THEN NormalizeSegs(rest, allowAboveRoot, res)
            ELSE IF seg = <<".", ".">>
            THEN IF res # <<>> /\ res[Len(res)] # <<".", ".">>
                 THEN NormalizeSegs(rest, allowAboveRoot, SubSeq(res, 1, Len(res) - 1))
                 ELSE IF allowAboveRoot
                 THEN NormalizeSegs(rest, allowAboveRoot, Append(res, seg))
                 ELSE NormalizeSegs(rest, allowAboveRoot, res)
            ELSE NormalizeSegs(rest, allowAboveRoot, Append(res, seg))

normalizeString(path, allowAboveRoot) ==
    JoinSegs(NormalizeSegs(Split(path), allowAboveRoot, <<>>))

PathIsAbsolute(path) == Len(path) > 0 /\ path[1] = "/"

PathNormalize(path) ==
    IF Len(path) = 0 THEN <<".">>
    ELSE LET isAbsolute == path[1] = "/"
             trailingSeparator == path[Len(path)] = "/"
             p == normalizeString(path, ~isAbsolute)
         IN IF Len(p) = 0
            THEN IF isAbsolute THEN <<"/">>
                 ELSE IF trailingSeparator THEN <<".", "/">> ELSE <<".">>
            ELSE LET q == IF trailingSeparator THEN Append(p, "/") ELSE p
                 IN IF isAbsolute THEN <<"/">> \o q ELSE q

\* Path.join(a, b)
PathJoin(a, b) ==
    IF Len(a) = 0 /\ Len(b) = 0 THEN <<".">>
    ELSE IF Len(a) = 0 THEN PathNormalize(b)
    ELSE IF Len(b) = 0 THEN PathNormalize(a)
    ELSE PathNormalize(a \o <<"/">> \o b)

\* Path.resolve(a, b) in a process whose working directory is cwd (absolute).
PathResolve(cwd, a, b) ==
    LET s1 == IF Len(b) = 0 THEN <<>> ELSE b \o <<"/">>
        s2 == IF PathIsAbsolute(b) \/ Len(a) = 0 THEN s1 ELSE a \o <<"/">> \o s1
        s3 == IF PathIsAbsolute(s2) THEN s2 ELSE cwd \o <<"/">> \o s2
    IN <<"/">> \o normalizeString(s3, FALSE)

\* path.lastIndexOf(prefix, 0) === 0
StartsWith(path, prefix) ==
    /\ Len(prefix) <= Len(path)
    /\ SubSeq(path, 1, Len(prefix)) = prefix

\* if (options.confine): null, undefined and the empty string are falsy
ConfineIsTruthy(confine) == confine \notin {Null, Undefined, <<>>}

\* exports.response, the resolution of the path: null is the denied sentinel.
ResolvePath(cwd, relativeTo, confine, path) ==
    IF ConfineIsTruthy(confine)
    THEN LET confineDir == PathResolve(cwd, relativeTo, confine)
             p == IF PathIsAbsolute(path) THEN PathNormalize(path)
                  ELSE PathJoin(confineDir, path)
         IN IF ~StartsWith(p, confineDir) THEN Null ELSE p
    ELSE IF PathIsAbsolute(path) THEN PathNormalize(path)
         ELSE PathJoin(relativeTo, path)

(***************************************************************************)
(* The configuration of the server the requests run against.               *)
(***************************************************************************)
\* process.cwd() and route.settings.files.relativeTo
Cwd == <<"/">>
RelativeTo == <<"/">>
\* settings.confine of the css routes and of the toolkit calls
FileConfine == <<"a">>
\* settings.path of the cssdirectory route: the candidate directories, in order
DirPaths == << <<"a">>, <<"b">> >>
\* the paths given to h.css(), and settings.path of some css routes
RawPaths == { <<"x">>, <<"/", "a", "/", "x">>, <<".", ".", "/", "b", "/", "x">> }
\* The store is a plain object: two keys are not ordinary properties of it.
\* A value stored under "hasOwnProperty" shadows the method get calls, and an
\* assignment to "__proto__" sets the prototype and stores nothing.
HasOwnPropertyKey ==
    <<"h", "a", "s", "O", "w", "n", "P", "r", "o", "p", "e", "r", "t", "y">>
ProtoKey == <<"_", "_", "p", "r", "o", "t", "o", "_", "_">>

\* A key is a property name: undefined and null are coerced to the strings
\* "undefined" and "null".
UndefinedKey == <<"u", "n", "d", "e", "f", "i", "n", "e", "d">>
NullKey == <<"n", "u", "l", "l">>
PropertyName(key) ==
    IF key = Undefined THEN UndefinedKey
    ELSE IF key = Null THEN NullKey
    ELSE key

\* settings.path of the css routes
RoutePaths == RawPaths \cup {HasOwnPropertyKey, ProtoKey, UndefinedKey}
\* request.params[paramName] of the requests to the cssdirectory route
Selections == { <<>>, <<"x">>, <<"x", "/">>, <<".", ".", "/", "b", "/", "x">>,
                <<".", "x">> }
\* request.path is the route's prefix and then the parameter
RoutePrefix == <<"/", "c", "s", "s", "/">>
\* settings.showHidden of the cssdirectory route: not configured
ShowHidden == FALSE
\* settings.defaultExtension: not configured, or "c"
Extensions == { Undefined, <<"c">> }
\* the directories, which exist throughout: the root and the candidates
Directories == { <<"/">>, <<"/", "a">>, <<"/", "b">> }
\* the files that may exist
FilePaths == { <<"/", "a", "/", "x">>, <<"/", "b", "/", "x">>,
               <<"/", "a", "/", "x", ".", "c">> }
\* a file that exists throughout: the one the css route with path "undefined"
\* serves
FixedFiles == { <<"/", "a", "/">> \o UndefinedKey }
\* settings.start and settings.end as the schema admits them
Ranges == { r \in { Val(n) : n \in 0..MaxStart }
                   \X ({Undef} \cup { Val(n) : n \in 0..MaxStart }) :
               r[2] = Undef \/ r[2].v >= r[1].v }

\* settings.start and settings.end of the css routes: the schema's defaults
RouteStart == Val(0)
RouteEnd == Undef

\* One tick of a file's mtime is half a second.
TicksPerSecond == 2

(***************************************************************************)
(* Errors.                                                                 *)
(***************************************************************************)
NoError == [name |-> "none", isBoom |-> FALSE, statusCode |-> 0, code |-> "none"]
\* Boom.forbidden(null, { code: 'EACCES' })
Forbidden == [name |-> "forbidden", isBoom |-> TRUE, statusCode |-> 403, code |-> "EACCES"]
\* Boom.notFound()
NotFound == [name |-> "notFound", isBoom |-> TRUE, statusCode |-> 404, code |-> "none"]
\* a boom error of the etag computation
EtagError == [name |-> "etagError", isBoom |-> TRUE, statusCode |-> 500, code |-> "none"]
\* a JavaScript TypeError
TypeError == [name |-> "TypeError", isBoom |-> FALSE, statusCode |-> 0, code |-> "none"]
\* inert's File.stat on a directory: Boom.forbidden(null, { code: 'EISDIR' })
IsDirError == [name |-> "forbidden", isBoom |-> TRUE, statusCode |-> 403, code |-> "EISDIR"]
\* inert's File.open on an open error other than ENOENT, EACCES and EPERM:
\* Boom.boomify(err, { message: 'Failed to open file' })
OpenError == [name |-> "openError", isBoom |-> TRUE, statusCode |-> 500, code |-> "ENOTDIR"]
\* the system error of reading a missing file
ReadError == [name |-> "readError", isBoom |-> FALSE, statusCode |-> 0, code |-> "ENOENT"]
\* an error thrown by postcss.process
ProcessError == [name |-> "processError", isBoom |-> FALSE, statusCode |-> 0, code |-> "none"]

\* isNotFound
isNotFound(boom) == boom.statusCode = 404

(***************************************************************************)
(* inMemoryCache.  A stored value is a record of marshal or a response     *)
(* object (by id).                                                         *)
(***************************************************************************)
NoEntry == [kind |-> "null", mtime |-> Undef, etag |-> Undefined, css |-> <<>>,
            size |-> 0, id |-> 0]
Record(mtime, etag, css, size) ==
    [kind |-> "record", mtime |-> mtime, etag |-> etag, css |-> css, size |-> size,
     id |-> 0]
ResponseRef(id) == [NoEntry EXCEPT !.kind = "response", !.id = id]

\* get throws "TypeError: this.cache.hasOwnProperty is not a function"
Thrown == [NoEntry EXCEPT !.kind = "throw"]

\* inMemoryCache.get
CacheGet(c, key) ==
    LET name == PropertyName(key)
    IN IF HasOwnPropertyKey \in DOMAIN c THEN Thrown
       ELSE IF name \in DOMAIN c THEN c[name] ELSE NoEntry

\* A set that keeps a full record already stored under the key.
CacheSet_KeepFull(c, key, data) ==
    LET name == PropertyName(key)
    IN IF name = ProtoKey \/ (name \in DOMAIN c /\ c[name].kind = "record") THEN c
       ELSE [k \in DOMAIN c \cup {name} |-> IF k = name THEN data ELSE c[k]]

\* A set into a store that holds the latest key only.
CacheSet_LatestOnly(c, key, data) ==
    IF PropertyName(key) = ProtoKey THEN c ELSE [k \in {PropertyName(key)} |-> data]

\* inMemoryCache.set
CacheSet(c, key, data) ==
    LET name == PropertyName(key)
    IN IF name = ProtoKey THEN c
       ELSE [k \in DOMAIN c \cup {name} |-> IF k = name THEN data ELSE c[k]]

\* if (cached)
Truthy(cached) == cached.kind # "null"
\* cached.mtime: a response object has no such property
CachedMtime(cached) == IF cached.kind = "record" THEN cached.mtime ELSE Undef
\* cached.etag: of a response object, its etag method
CachedEtag(cached) == IF cached.kind = "record" THEN cached.etag ELSE <<"function">>
\* cached.data
HasData(cached) == cached.kind = "record"

(***************************************************************************)
(* The collaborators: file system, etag strategy, transformation engine.   *)
(***************************************************************************)
FileExists(fs, path) == path \in DOMAIN fs /\ fs[path].exists

RECURSIVE StripSlashes(_)
\* The path without its trailing slashes, which the file system ignores on a
\* directory.
StripSlashes(path) ==
    IF Len(path) > 1 /\ path[Len(path)] = "/"
    THEN StripSlashes(SubSeq(path, 1, Len(path) - 1))
    ELSE path

\* The path names a directory that exists.
IsDirectory(path) == StripSlashes(path) \in Directories

\* A component of the path before its end is a regular file (ENOTDIR).
ThroughFile(fs, path) ==
    \E n \in 1..(Len(path) - 1) :
        path[n + 1] = "/" /\ FileExists(fs, SubSeq(path, 1, n))

\* file.openStat('r') of inert: the error it rejects with, or NoError.  A
\* directory opens and its stat is refused; inert closes the handle itself.
OpenStat(fs, path) ==
    IF IsDirectory(path) THEN IsDirError
    ELSE IF FileExists(fs, path) THEN NoError
    ELSE IF ThroughFile(fs, path) THEN OpenError
    ELSE NotFound

\* fs.promises.readFile(path): the error it rejects with, or NoError.
ReadFile(fs, path) ==
    IF IsDirectory(path) THEN [ReadError EXCEPT !.code = "EISDIR"]
    ELSE IF FileExists(fs, path) THEN NoError
    ELSE IF ThroughFile(fs, path) THEN [ReadError EXCEPT !.code = "ENOTDIR"]
    ELSE ReadError

\* stat.mtime.toUTCString(): an HTTP date has whole seconds
toUTCString(mtime) == mtime \div TicksPerSecond

\* the etag the strategy computes for a file as stat saw it
EtagOf(mtime) == <<"t", ToString(mtime)>>

\* response.etag(tag): the header is the tag in double quotes
ResponseEtag(tag) == <<"\"">> \o tag \o <<"\"">>

\* postcss.process(data).css for the bytes of a file at a given mtime
Css(mtime) == [i \in 1..mtime |-> "c"]

(***************************************************************************)
(* Response objects.                                                       *)
(***************************************************************************)
\* exports.response: the source and the response generated for it
NewResponse(path, start, end, preloaded) ==
    [cleared |-> FALSE, path |-> path, start |-> start, end |-> end,
     file |-> FALSE, prepare |-> ~preloaded,
     ctype |-> FALSE, lm |-> Undef, etag |-> Undefined, bytes |-> Undef]

\* response.source.path
SourcePath(rs) == IF rs.cleared THEN Undefined ELSE rs.path

\* settings.start || 0
StartOrZero(start) == IF start = Undef THEN 0 ELSE start.v

\* Bytes with the end taken as exclusive.
Bytes_EndExclusive(start, end, size) ==
    IF end # Undef THEN end.v - StartOrZero(start)
    ELSE size - StartOrZero(start)

\* the byte length marshal sets
Bytes(start, end, size) ==
    IF end # Undef THEN end.v - StartOrZero(start) + 1
    ELSE size - StartOrZero(start)

\* PrepareSync without the test for the denied path.
PrepareSync_NoDeniedCheck(rs, c) ==
    LET path == SourcePath(rs)
        cached == CacheGet(c, path)
    IN IF cached = Thrown
       THEN [outcome |-> "throw", rs |-> rs]
       ELSE IF Truthy(cached)
       THEN [outcome |-> "hit",
             rs |-> [rs EXCEPT !.ctype = TRUE,
                               !.lm = IF CachedMtime(cached) # Undef
                                      THEN CachedMtime(cached) ELSE @,
                               !.etag = IF CachedEtag(cached) # Undefined
                                        THEN ResponseEtag(CachedEtag(cached)) ELSE @]]
       ELSE [outcome |-> "miss", rs |-> [rs EXCEPT !.file = TRUE]]

\* internals.prepare up to its first await.
PrepareSync(rs, c) ==
    LET path == SourcePath(rs)
        cached == CacheGet(c, path)
    IN IF path = Null
       THEN [outcome |-> "forbidden", rs |-> rs]
       ELSE IF cached = Thrown
       THEN [outcome |-> "throw", rs |-> rs]
       ELSE IF Truthy(cached)
       THEN [outcome |-> "hit",
             rs |-> [rs EXCEPT !.ctype = TRUE,
                               !.lm = IF CachedMtime(cached) # Undef
                                      THEN CachedMtime(cached) ELSE @,
                               !.etag = IF CachedEtag(cached) # Undefined
                                        THEN ResponseEtag(CachedEtag(cached)) ELSE @]]
       ELSE [outcome |-> "miss", rs |-> [rs EXCEPT !.file = TRUE]]

\* The catch block of internals.prepare: internals.close is not defined in
\* file.js, so calling it throws a TypeError in place of the caught error and
\* releases nothing.
PrepareCatch(err) == [err |-> TypeError, released |-> FALSE]

(***************************************************************************)
(* Requests.                                                               *)
(***************************************************************************)
\* What a request holds: the route it came in by (kind, raw, ext, start, end),
\* where it is (pc), the response it works on (r), the locals of prepare and
\* marshal (path, statMtime, content, dMtime, dEtag), the locals of the
\* directory handler (i, retry), what it did (loads, stats, reads, procs, fds)
\* and how it ended (err, out, outKind).  late records that the cache held a
\* full record for the request's resolved path when the request came in, and
\* cause the error that the try block of prepare caught.
NewRequest(kind, raw, ext, start, end) ==
    [kind |-> kind, raw |-> raw, ext |-> ext, start |-> start, end |-> end,
     pc |-> "new", r |-> 0, path |-> Undefined, statMtime |-> 0, content |-> 0,
     dMtime |-> Undef, dEtag |-> Undefined, i |-> 0, retry |-> FALSE,
     loads |-> <<>>, stats |-> 0, reads |-> 0, procs |-> 0, fds |-> 0,
     err |-> NoError, out |-> <<>>, outKind |-> "none",
     late |-> FALSE, cause |-> NoError, resource |-> <<>>]

Req == 1..Len(req)

\* The cache holds a full record for the resolved path.
Late(c, path) == HasData(CacheGet(c, path))

\* isFileHidden without the ^ alternative: a dot counts after a separator only.
isFileHidden_AfterSeparatorOnly(path) ==
    \E i \in 2..Len(path) :
        /\ path[i - 1] \in {"\\", "/"}
        /\ path[i] = "."
        /\ \/ i + 1 <= Len(path) /\ path[i + 1] \notin {".", "\\", "/"}
           \/ /\ i + 2 <= Len(path)
              /\ path[i + 1] = "."
              /\ path[i + 2] \notin {"\\", "/"}

\* isFileHidden: /(^|[\\/])\.([^.\\/]|\.[^\\/])/.test(path)
isFileHidden(path) ==
    \E i \in 1..Len(path) :
        /\ i = 1 \/ path[i - 1] \in {"\\", "/"}
        /\ path[i] = "."
        /\ \/ i + 1 <= Len(path) /\ path[i + 1] \notin {".", "\\", "/"}
           \/ /\ i + 2 <= Len(path)
              /\ path[i + 1] = "."
              /\ path[i + 2] \notin {"\\", "/"}

\* The request rq after internals.prepare ran, up to its first await, on the
\* response rs, whose id is id.  In the directory handler a failure is caught
\* by each; elsewhere it ends the request.
RunPrepare(rq, id, rs) ==
    LET p == PrepareSync(rs, cache)
        path == SourcePath(rs)
    IN CASE p.outcome = "forbidden" ->
              IF rq.kind = "dir"
              THEN [rq EXCEPT !.r = id, !.pc = "caught", !.err = Forbidden]
              ELSE [rq EXCEPT !.r = id, !.pc = "done", !.err = Forbidden]
         [] p.outcome = "throw" ->
              IF rq.kind = "dir"
              THEN [rq EXCEPT !.r = id, !.pc = "caught", !.err = TypeError]
              ELSE [rq EXCEPT !.r = id, !.pc = "done", !.err = TypeError]
         [] p.outcome = "hit" ->
              [rq EXCEPT !.r = id, !.pc = "prepared"]
         [] OTHER ->
              [rq EXCEPT !.r = id, !.pc = "stat", !.path = path,
                         !.stats = @ + 1]

\* The handler of fileHandler, for a route whose settings are path = raw,
\* start and end.
StartFile(raw, start, end) ==
    /\ Len(req) < MaxRequests
    /\ LET path == ResolvePath(Cwd, RelativeTo, FileConfine, raw)
           rq == [NewRequest("file", raw, Undefined, start, end)
                     EXCEPT !.late = Late(cache, path)]
           cached == CacheGet(cache, raw)
           id == Len(resp) + 1
       IN IF Truthy(cached)
          THEN /\ req' = Append(req,
                     IF cached = Thrown
                     THEN [rq EXCEPT !.pc = "done", !.err = TypeError]
                     ELSE IF cached.kind = "response"
                     THEN [rq EXCEPT !.r = cached.id, !.pc = "prepare"]
                     ELSE [rq EXCEPT !.pc = "done", !.outKind = "record",
                                     !.out = cached.css])
               /\ UNCHANGED <<cache, resp>>
          ELSE /\ resp' = Append(resp, NewResponse(path, start, end, FALSE))
               /\ cache' = CacheSet(cache, raw, ResponseRef(id))
               /\ req' = Append(req, [rq EXCEPT !.r = id, !.pc = "prepare"])
    /\ UNCHANGED <<files, touches, pIn, pOut>>

\* internals.fileMethod: h.css(raw, { start, end })
StartToolkit(raw, start, end) ==
    /\ Len(req) < MaxRequests
    /\ LET path == ResolvePath(Cwd, RelativeTo, FileConfine, raw)
           rq == [NewRequest("toolkit", raw, Undefined, start, end)
                     EXCEPT !.late = Late(cache, path)]
           id == Len(resp) + 1
       IN /\ resp' = Append(resp, NewResponse(path, start, end, FALSE))
          /\ req' = Append(req, [rq EXCEPT !.r = id, !.pc = "prepare"])
    /\ UNCHANGED <<cache, files, touches, pIn, pOut>>

\* The framework runs the prepare processor of the response the handler
\* returned.  hapi (>= 17.7.0, the version the plugin requires) does so for
\* every response a handler returns, also for one it has prepared before.
Prepare(q) ==
    /\ q \in Req
    /\ req[q].pc = "prepare"
    /\ resp[req[q].r].prepare
    /\ LET id == req[q].r
           p == PrepareSync(resp[id], cache)
       IN /\ resp' = [resp EXCEPT ![id] = p.rs]
          /\ req' = [req EXCEPT ![q] = RunPrepare(req[q], id, resp[id])]
    /\ UNCHANGED <<cache, files, touches, pIn, pOut>>

\* File.load(path, request, fileOptions) with fileOptions.confine = baseDir:
\* exports.load creates the response, without a prepare processor, and calls
\* internals.prepare itself.  The response gets the id given.
Load(rq, baseDir, path, id) ==
    LET resolved == ResolvePath(Cwd, RelativeTo, baseDir, path)
        rs == NewResponse(resolved, Undef, Undef, TRUE)
    IN [rs |-> PrepareSync(rs, cache).rs,
        rq |-> RunPrepare([rq EXCEPT !.loads = Append(@, resolved)], id, rs)]

\* The handler of the cssdirectory route, up to its first await.
StartDir(resource, selection, ext) ==
    /\ Len(req) < MaxRequests
    /\ LET rq == [NewRequest("dir", selection, ext, Undef, Undef)
                     EXCEPT !.resource = resource, !.late = Len(DirPaths) > 0 /\
                         Late(cache, ResolvePath(Cwd, RelativeTo, DirPaths[1], selection))]
       IN IF Len(selection) > 0 /\ ~ShowHidden /\ isFileHidden(selection)
          THEN /\ req' = Append(req, [rq EXCEPT !.pc = "done", !.err = NotFound])
               /\ UNCHANGED resp
          ELSE IF Len(DirPaths) = 0
          THEN /\ req' = Append(req, [rq EXCEPT !.pc = "done", !.err = NotFound])
               /\ UNCHANGED resp
          ELSE LET l == Load([rq EXCEPT !.i = 1], DirPaths[1], selection,
                             Len(resp) + 1)
               IN /\ resp' = Append(resp, l.rs)
                  /\ req' = Append(req, l.rq)
    /\ UNCHANGED <<cache, files, touches, pIn, pOut>>

\* What the directory handler does with an error of File.load: each's catch
\* and the catch of the loop over the candidates.
DirDecide(err, i, retry, ext) ==
    LET loop == IF ~err.isBoom THEN "throw"
                ELSE IF ~isNotFound(err) \/ i = Len(DirPaths) THEN "throw"
                ELSE "next"
    IN IF retry THEN loop
       ELSE IF ~err.isBoom THEN "throw"
       ELSE IF isNotFound(err)
       THEN IF ext = Undefined THEN loop ELSE "retry"
       ELSE loop

\* resource.endsWith('/') for resource = request.path
HasTrailingSlash(resource) == Len(resource) > 0 /\ resource[Len(resource)] = "/"

\* path + '.' + settings.defaultExtension, path.slice(0, -1) first when
\* request.path has a trailing slash
WithExtension(path, hasTrailingSlash, ext) ==
    LET p == IF hasTrailingSlash THEN SubSeq(path, 1, Len(path) - 1) ELSE path
    IN p \o <<".">> \o ext

\* The directory handler catches the error of a File.load.
DirCatch(q) ==
    /\ q \in Req
    /\ req[q].pc = "caught"
    /\ LET rq == req[q]
           d == DirDecide(rq.err, rq.i, rq.retry, rq.ext)
           l == IF d = "retry"
                THEN Load([rq EXCEPT !.retry = TRUE, !.err = NoError],
                          DirPaths[rq.i],
                          WithExtension(rq.raw, HasTrailingSlash(rq.resource), rq.ext),
                          Len(resp) + 1)
                ELSE Load([rq EXCEPT !.retry = FALSE, !.err = NoError, !.i = @ + 1],
                          DirPaths[rq.i + 1], rq.raw, Len(resp) + 1)
       IN IF d = "throw"
          THEN /\ req' = [req EXCEPT ![q].pc = "done"]
               /\ UNCHANGED resp
          ELSE /\ resp' = Append(resp, l.rs)
               /\ req' = [req EXCEPT ![q] = l.rq]
    /\ UNCHANGED <<cache, files, touches, pIn, pOut>>

\* A failure inside the try block of internals.prepare: the catch block runs
\* and prepare rejects.  rq.fds counts the handle if it is open.
PrepareFails(rq, err) ==
    LET c == PrepareCatch(err)
    IN [rq EXCEPT !.pc = IF rq.kind = "dir" THEN "caught" ELSE "done",
                  !.err = c.err,
                  !.cause = err,
                  !.fds = IF c.released THEN 0 ELSE @]

\* file.openStat('r') settles.  On success prepare sets content-type and
\* last-modified and calls Etag.apply, which reads response.source.settings.
OpenStatDone(q) ==
    /\ q \in Req
    /\ req[q].pc = "stat"
    /\ LET rq == req[q]
           id == rq.r
       IN IF rq.path = Undefined
          THEN /\ req' = [req EXCEPT ![q] = PrepareFails(rq, TypeError)]
               /\ UNCHANGED resp
          ELSE IF OpenStat(files, rq.path) # NoError
          THEN /\ req' = [req EXCEPT ![q] =
                            PrepareFails(rq, OpenStat(files, rq.path))]
               /\ UNCHANGED resp
          ELSE /\ resp' = [resp EXCEPT ![id].ctype = TRUE,
                                       ![id].lm = Val(toUTCString(files[rq.path].mtime))]
               /\ req' = [req EXCEPT ![q] =
                            IF resp[id].cleared
                            THEN PrepareFails([rq EXCEPT !.fds = @ + 1], TypeError)
                            ELSE [rq EXCEPT !.pc = "etag", !.fds = @ + 1,
                                            !.statMtime = files[rq.path].mtime]]
    /\ UNCHANGED <<cache, files, touches, pIn, pOut>>

\* Etag.apply(response, stat) settles: it set the etag header, left it alone
\* (no etag method, no etag yet) or failed; the handle is open meanwhile.
EtagDone(q, outcome) ==
    /\ q \in Req
    /\ req[q].pc = "etag"
    /\ LET rq == req[q]
           id == rq.r
       IN CASE outcome = "set" ->
                 /\ resp' = [resp EXCEPT ![id].etag = ResponseEtag(EtagOf(rq.statMtime))]
                 /\ req' = [req EXCEPT ![q].pc = "prepared"]
            [] outcome = "none" ->
                 /\ req' = [req EXCEPT ![q].pc = "prepared"]
                 /\ UNCHANGED resp
            [] OTHER ->
                 /\ req' = [req EXCEPT ![q] =
                              PrepareFails(rq, EtagError)]
                 /\ UNCHANGED resp
    /\ UNCHANGED <<cache, files, touches, pIn, pOut>>

\* The framework calls internals.marshal on a prepared response: marshal up to
\* its first await, which on a miss is the one of fs.promises.readFile.
Marshal(q) ==
    /\ q \in Req
    /\ req[q].pc = "prepared"
    /\ LET rq == req[q]
           id == rq.r
           rs == resp[id]
           path == SourcePath(rs)
           cached == CacheGet(cache, path)
       IN IF cached = Thrown
          THEN /\ req' = [req EXCEPT ![q] =
                            [rq EXCEPT !.pc = "done", !.path = path,
                                       !.err = TypeError]]
               /\ UNCHANGED resp
          ELSE IF Truthy(cached) /\ HasData(cached)
          THEN /\ resp' = [resp EXCEPT ![id] =
                             [rs EXCEPT !.lm = cached.mtime,
                                        !.bytes = Val(Bytes(rs.start, rs.end, cached.size)),
                                        !.cleared = TRUE]]
               /\ req' = [req EXCEPT ![q] =
                            [rq EXCEPT !.pc = "done", !.path = path,
                                       !.out = cached.css, !.outKind = "css"]]
          ELSE /\ req' = [req EXCEPT ![q] =
                            [rq EXCEPT !.pc = "read", !.path = path,
                                       !.dMtime = rs.lm, !.dEtag = rs.etag,
                                       !.reads = @ + 1]]
               /\ UNCHANGED resp
    /\ UNCHANGED <<cache, files, touches, pIn, pOut>>

\* fs.promises.readFile(response.source.path) settles; with the bytes
\* internals.processCSS calls postcss.process.
ReadDone(q) ==
    /\ q \in Req
    /\ req[q].pc = "read"
    /\ LET rq == req[q]
       IN req' = [req EXCEPT ![q] =
                    IF rq.path = Undefined
                    THEN [rq EXCEPT !.pc = "done", !.err = TypeError]
                    ELSE IF ReadFile(files, rq.path) # NoError
                    THEN [rq EXCEPT !.pc = "done", !.err = ReadFile(files, rq.path)]
                    ELSE [rq EXCEPT !.pc = "process", !.procs = @ + 1,
                                    !.content = files[rq.path].mtime]]
    /\ UNCHANGED <<cache, files, touches, resp, pIn, pOut>>

\* ProcessDone with the record stored, without data, before the
\* transformation settles.
ProcessDone_StoresBeforeData(q, ok) ==
    /\ q \in Req
    /\ req[q].pc = "process"
    /\ LET rq == req[q]
           id == rq.r
           rs == resp[id]
           css == Css(rq.content)
           size == Len(css)
       IN IF ~ok
          THEN /\ req' = [req EXCEPT ![q] = [rq EXCEPT !.pc = "done", !.err = ProcessError]]
               /\ cache' = CacheSet(cache, rq.path,
                                    [NoEntry EXCEPT !.kind = "partial",
                                                    !.mtime = rq.dMtime,
                                                    !.etag = rq.dEtag])
               /\ UNCHANGED resp
          ELSE /\ cache' = CacheSet(cache, rq.path, Record(rq.dMtime, rq.dEtag, css, size))
               /\ IF rs.cleared
                  THEN /\ req' = [req EXCEPT ![q] =
                                    [rq EXCEPT !.pc = "done", !.err = TypeError]]
                       /\ UNCHANGED resp
                  ELSE /\ resp' = [resp EXCEPT ![id] =
                                     [rs EXCEPT !.bytes = Val(Bytes(rs.start, rs.end, size)),
                                                !.cleared = TRUE]]
                       /\ req' = [req EXCEPT ![q] =
                                    [rq EXCEPT !.pc = "done", !.out = css,
                                               !.outKind = "css"]]
    /\ UNCHANGED <<files, touches, pIn, pOut>>

\* postcss.process settles.  On success marshal stores the record, sets the
\* byte length from response.source.settings, and clears the source.
ProcessDone(q, ok) ==
    /\ q \in Req
    /\ req[q].pc = "process"
    /\ LET rq == req[q]
           id == rq.r
           rs == resp[id]
           css == Css(rq.content)
           size == Len(css)
       IN IF ~ok
          THEN /\ req' = [req EXCEPT ![q] = [rq EXCEPT !.pc = "done", !.err = ProcessError]]
               /\ UNCHANGED <<cache, resp>>
          ELSE /\ cache' = CacheSet(cache, rq.path, Record(rq.dMtime, rq.dEtag, css, size))
               /\ IF rs.cleared
                  THEN /\ req' = [req EXCEPT ![q] =
                                    [rq EXCEPT !.pc = "done", !.err = TypeError]]
                       /\ UNCHANGED resp
                  ELSE /\ resp' = [resp EXCEPT ![id] =
                                     [rs EXCEPT !.bytes = Val(Bytes(rs.start, rs.end, size)),
                                                !.cleared = TRUE]]
                       /\ req' = [req EXCEPT ![q] =
                                    [rq EXCEPT !.pc = "done", !.out = css,
                                               !.outKind = "css"]]
    /\ UNCHANGED <<files, touches, pIn, pOut>>

\* The environment modifies a file: its mtime and its bytes change.
Touch(f) ==
    /\ touches < MaxTouches
    /\ f \in FilePaths
    /\ files[f].exists
    /\ files' = [files EXCEPT ![f].mtime = @ + 1]
    /\ touches' = touches + 1
    /\ UNCHANGED <<cache, resp, req, pIn, pOut>>

(***************************************************************************)
(* The server.                                                             *)
(***************************************************************************)
NoInput == [cwd |-> <<"/">>, relativeTo |-> <<"/">>, confine |-> Null, path |-> <<>>]

InitServer ==
    /\ cache = <<>>
    /\ files \in { [p \in FilePaths \cup FixedFiles |->
                        IF p \in FixedFiles THEN [exists |-> TRUE, mtime |-> 1]
                        ELSE g[p]] :
                    g \in [FilePaths -> { [exists |-> e, mtime |-> 1] : e \in BOOLEAN }] }
    /\ touches = 0
    /\ resp = <<>>
    /\ req = <<>>

Init ==
    /\ InitServer
    /\ pIn = NoInput
    /\ pOut = <<"pending">>

Next ==
    \/ \E raw \in RoutePaths : StartFile(raw, RouteStart, RouteEnd)
    \/ \E raw \in RawPaths, r \in Ranges : StartToolkit(raw, r[1], r[2])
    \/ \E sel \in Selections, ext \in Extensions :
          StartDir(RoutePrefix \o sel, sel, ext)
    \/ \E q \in Req : Prepare(q)
    \/ \E q \in Req : OpenStatDone(q)
    \/ \E q \in Req, o \in {"set", "none", "fail"} : EtagDone(q, o)
    \/ \E q \in Req : DirCatch(q)
    \/ \E q \in Req : Marshal(q)
    \/ \E q \in Req : ReadDone(q)
    \/ \E q \in Req, ok \in BOOLEAN : ProcessDone(q, ok)
    \/ \E f \in FilePaths : Touch(f)

Spec == Init /\ [][Next]_vars

(***************************************************************************)
(* The path resolution of exports.response alone, over every raw path of   *)
(* up to MaxPathLen characters.                                            *)
(***************************************************************************)
Alphabet == {"/", ".", "a", "b"}
AllPaths == UNION { [1..n -> Alphabet] : n \in 0..MaxPathLen }
PathInputs ==
    [cwd : { <<"/">>, <<"/", "b">> },
     relativeTo : { <<".">>, <<"/", "a">>, <<"/", "a", "/", "b">> },
     confine : { <<".">>, <<"b">>, <<".", ".">>, <<"/", "a">>, <<>>, Null },
     path : AllPaths]

InitPath ==
    /\ cache = <<>>
    /\ files = [f \in FilePaths |-> [exists |-> FALSE, mtime |-> 1]]
    /\ touches = 0
    /\ resp = <<>>
    /\ req = <<>>
    /\ pIn \in PathInputs
    /\ pOut = <<"pending">>

\* exports.response resolves the path of its source.
Resolve ==
    /\ pOut = <<"pending">>
    /\ pOut' = ResolvePath(pIn.cwd, pIn.relativeTo, pIn.confine, pIn.path)
    /\ UNCHANGED <<cache, files, touches, resp, req, pIn>>

NextPath == Resolve

SpecPath == InitPath /\ [][NextPath]_vars

(***************************************************************************)
(* The claims.                                                             *)
(***************************************************************************)
\* Nothing is at the path: no file, no directory, and no file on the way.
Missing(fs, path) ==
    ~FileExists(fs, path) /\ ~IsDirectory(path) /\ ~ThroughFile(fs, path)

\* The segments of an absolute path.
Segments(p) == NormalizeSegs(Split(p), FALSE, <<>>)

\* p is dir or a descendant of dir.
Inside(p, dir) ==
    /\ Len(Segments(dir)) <= Len(Segments(p))
    /\ SubSeq(Segments(p), 1, Len(Segments(dir))) = Segments(dir)

\* C1: under a truthy confine, a path resolves to the denied sentinel or to a
\* path inside the confinement directory Path.resolve(relativeTo, confine).
C1_ResolvedInsideConfineDir ==
    (pOut # <<"pending">> /\ ConfineIsTruthy(pIn.confine)) =>
        \/ pOut = Null
        \/ Inside(pOut, PathResolve(pIn.cwd, pIn.relativeTo, pIn.confine))

\* The request works on a response whose path was denied.
Denied(q) == req[q].r # 0 /\ resp[req[q].r].path = Null

\* C2: a request whose path resolves to denied fails with the forbidden error
\* of code EACCES, and at no point opens, stats or reads a file or calls the
\* transformation.
C2_DeniedIsForbiddenWithoutIO ==
    \A q \in Req :
        Denied(q) =>
            /\ req[q].stats = 0 /\ req[q].reads = 0 /\ req[q].procs = 0
            /\ req[q].fds = 0
            /\ req[q].pc \in {"prepare", "caught", "done"}
            /\ req[q].pc \in {"caught", "done"} => req[q].err = Forbidden
            /\ req[q].outKind = "none"

C2_Witness ==
    \E q \in Req :
        /\ Denied(q)
        /\ req[q].pc = "done"
        /\ req[q].err.statusCode = 403 /\ req[q].err.code = "EACCES"
        /\ req[q].stats = 0

\* C3: a request that comes in when the cache holds a full record for its
\* resolved path performs no open/stat, no read and no transformation.
C3_NoIOAfterFullRecord ==
    \A q \in Req :
        req[q].late => req[q].stats = 0 /\ req[q].reads = 0 /\ req[q].procs = 0

\* C4: the mtime and the etag of a full record never change once written.
C4_FullRecordPinned ==
    [][\A k \in DOMAIN cache :
          HasData(cache[k]) =>
              /\ cache'[k].mtime = cache[k].mtime
              /\ cache'[k].etag = cache[k].etag]_vars

\* The candidate directory i holds the file the request q asks for.
InCandidate(q, i) ==
    FileExists(files, ResolvePath(Cwd, RelativeTo, DirPaths[i], req[q].raw))

\* The paths File.load is given when the candidates 1..i are tried in order.
LoadsUpTo(q, i) ==
    [j \in 1..i |-> ResolvePath(Cwd, RelativeTo, DirPaths[j], req[q].raw)]

\* C5: without a default extension, the directory handler answers with the
\* response of the first candidate that holds the file, having tried every
\* earlier candidate, and surfaces no error.
C5_FirstCandidateWithFileWins ==
    \A q \in Req : \A i \in 1..Len(DirPaths) :
        ( /\ req[q].kind = "dir" /\ req[q].pc = "done"
          /\ req[q].ext = Undefined
          /\ InCandidate(q, i)
          /\ \A j \in 1..(i - 1) : ~InCandidate(q, j)
          /\ \A j \in 1..i :
                ResolvePath(Cwd, RelativeTo, DirPaths[j], req[q].raw) # Null )
        => \/ /\ req[q].err = NoError
              /\ req[q].loads = LoadsUpTo(q, i)
              /\ resp[req[q].r].path = LoadsUpTo(q, i)[i]
           \/ req[q].err \in {ProcessError, ReadError}

\* C6: with a default extension, a path missing in a candidate whose
\* path + '.' + extension exists there is answered with the extended file,
\* after exactly one retry in that candidate and before any later candidate.
C6_DefaultExtensionRetry ==
    \A q \in Req :
        LET first == ResolvePath(Cwd, RelativeTo, DirPaths[1], req[q].raw)
            second == ResolvePath(Cwd, RelativeTo, DirPaths[1],
                                  WithExtension(req[q].raw,
                                                HasTrailingSlash(req[q].resource),
                                                req[q].ext))
        IN ( /\ req[q].kind = "dir" /\ req[q].pc = "done"
             /\ req[q].ext # Undefined
             /\ first # Null /\ Missing(files, first)
             /\ FileExists(files, second) )
           => \/ /\ req[q].err = NoError
                 /\ req[q].loads = <<first, second>>
                 /\ resp[req[q].r].path = second
              \/ req[q].err \in {ProcessError, ReadError}

\* C7: the byte length marshal sets is end - start + 1 when end is set and
\* size - start otherwise, start defaulting to 0 and size being the length of
\* the css emitted, on a cache hit and on a cache miss alike.
C7_ByteLength ==
    \A q \in Req :
        (req[q].pc = "done" /\ req[q].outKind = "css") =>
            LET start == IF req[q].start = Undef THEN 0 ELSE req[q].start.v
            IN resp[req[q].r].bytes =
                 IF req[q].end # Undef
                 THEN Val(req[q].end.v - start + 1)
                 ELSE Val(Len(req[q].out) - start)

\* a request answered by the miss branch and one answered by the hit branch,
\* for the same artifact and settings, with a start other than 0
C7_Witness ==
    \E q1, q2 \in Req :
        /\ req[q1].pc = "done" /\ req[q1].outKind = "css" /\ req[q1].procs = 1
        /\ req[q2].pc = "done" /\ req[q2].outKind = "css" /\ req[q2].procs = 0
        /\ req[q1].out = req[q2].out
        /\ req[q1].start = req[q2].start /\ req[q1].start.v > 0
        /\ req[q1].end = Undef /\ req[q2].end = Undef
        /\ resp[req[q1].r].bytes = resp[req[q2].r].bytes
        /\ resp[req[q2].r].bytes = Val(Len(req[q2].out) - req[q2].start.v)

\* C8: when prepare misses the cache and the file does not exist, prepare
\* propagates a not-found (404) error, which differs from the forbidden error.
C8_MissingFileIsNotFound ==
    \A q \in Req :
        ( /\ req[q].pc \in {"caught", "done"}
          /\ req[q].stats > 0 /\ req[q].reads = 0
          /\ req[q].path # Undefined
          /\ Missing(files, req[q].path) )
        => isNotFound(req[q].err) /\ req[q].err # Forbidden

\* C9: when prepare fails after the file object was created, the handle is
\* released and the error propagated is the failure itself.
C9_FailureReleasesHandle ==
    \A q \in Req :
        req[q].cause # NoError =>
            req[q].fds = 0 /\ req[q].err = req[q].cause

\* a key that a resolution can yield: absolute and normalized
IsResolvedPath(k) == PathIsAbsolute(k) /\ PathNormalize(k) = k

\* C10: every key of the cache is a resolved path and every value a cache
\* record; what is written is a full record.
C10_CacheHoldsRecordsByResolvedPath ==
    \A k \in DOMAIN cache :
        /\ IsResolvedPath(k)
        /\ cache[k].kind = "record"
        /\ cache[k].size = Len(cache[k].css)

\* C11: the cache coalesces nothing: a request that missed in marshal and whose
\* transformation succeeded writes its own full record whatever the cache holds
\* by then, so of two concurrent first requests the later write replaces the
\* earlier one.
C11_LaterWriteReplaces ==
    [][\A q \in Req :
          ( /\ req[q].pc = "process"
            /\ req'[q].pc = "done"
            /\ req'[q].err # ProcessError )
          => /\ req[q].path \in DOMAIN cache'
             /\ cache'[req[q].path] =
                 Record(req[q].dMtime, req[q].dEtag, Css(req[q].content),
                        Len(Css(req[q].content)))]_vars

\* two requests for the same path, each on its own response, both missed in
\* prepare and stat'ed, both missed in marshal and transformed, and the cache
\* holds the record of one of them, which differs from what the other wrote
C11_Witness ==
    \E q1, q2 \in Req :
        /\ q1 # q2 /\ req[q1].r # req[q2].r
        /\ req[q1].path = req[q2].path
        /\ req[q1].pc = "done" /\ req[q1].outKind = "css"
        /\ req[q2].pc = "done" /\ req[q2].outKind = "css"
        /\ req[q1].stats = 1 /\ req[q1].procs = 1
        /\ req[q2].stats = 1 /\ req[q2].procs = 1
        /\ req[q1].out # req[q2].out
        /\ req[q1].dMtime # req[q2].dMtime
        /\ req[q2].path \in DOMAIN cache
        /\ cache[req[q2].path] =
               Record(req[q2].dMtime, req[q2].dEtag, req[q2].out, Len(req[q2].out))

\* C12: a response served from a full record carries the last-modified and
\* the etag of that record, whether the request hit the cache in prepare or
\* only in marshal.
C12_ServedPairIsRecordPair ==
    [][\A q \in Req :
          ( /\ req[q].pc = "prepared"
            /\ req'[q].pc = "done"
            /\ req'[q].outKind = "css" )
          => LET record == CacheGet(cache, SourcePath(resp[req[q].r]))
             IN /\ resp'[req[q].r].lm = record.mtime
                /\ resp'[req[q].r].etag = record.etag]_vars

\* The response id has been marshalled: marshal ran to its end on it.
Marshalled(id) == resp[id].cleared

\* The response id has failed: a request ended with an error on it.
Failed(id) ==
    \E p \in Req :
        /\ req[p].r = id
        /\ req[p].pc \in {"caught", "done"}
        /\ req[p].err # NoError

\* C13: marshalled and failed are terminal: prepare and marshal never run on a
\* response that has been marshalled or has failed, and marshal runs only for
\* a request whose prepare completed.
C13_ResponseLifecycle ==
    [][\A q \in Req :
          /\ (req[q].pc = "prepare" /\ req'[q].pc # "prepare")
                => ~Marshalled(req[q].r) /\ ~Failed(req[q].r)
          /\ (req[q].pc = "prepared" /\ req'[q].pc # "prepared")
                => ~Marshalled(req[q].r) /\ ~Failed(req[q].r)
          /\ (req'[q].pc \in {"read", "process"} /\ req[q].pc # req'[q].pc)
                => req[q].pc \in {"prepared", "read"}]_vars

\* C14: no two requests work on the same response (and so on the same
\* source).
C14_OneRequestPerResponse ==
    \A q1, q2 \in Req :
        (q1 # q2 /\ req[q1].r # 0) => req[q1].r # req[q2].r

\* C15: once a request's prepare/marshal lifecycle has ended, with the css or
\* with an error, no handle that its prepare opened is still open.
C15_HandleClosedAtEnd ==
    \A q \in Req :
        req[q].pc = "done" => req[q].fds = 0

\* The error a File.load of the request q failed with: what the try block of
\* prepare caught, or else what prepare threw before it.
LoadError(q) == IF req[q].cause # NoError THEN req[q].cause ELSE req[q].err

\* C16: when a File.load of the directory handler fails with an error other
\* than not-found, the handler ends with that very error and attempts no
\* retry and no later candidate.
C16_OtherErrorsSurfaceUnchanged ==
    [][\A q \in Req :
          ( /\ req[q].pc = "caught"
            /\ req'[q] # req[q]
            /\ ~isNotFound(LoadError(q)) )
          => /\ req'[q] = [req[q] EXCEPT !.pc = "done", !.err = LoadError(q)]
             /\ resp' = resp]_vars

\* The paths File.load is given when every candidate is attempted in order,
\* each with the request's path and then, if a default extension is
\* configured, with the extended path.
AllAttempts(q) ==
    LET k == IF req[q].ext = Undefined THEN 1 ELSE 2
    IN [j \in 1..(k * Len(DirPaths)) |->
           ResolvePath(Cwd, RelativeTo, DirPaths[((j - 1) \div k) + 1],
                       IF (j - 1) % k = 0 THEN req[q].raw
                       ELSE WithExtension(req[q].raw,
                                          HasTrailingSlash(req[q].resource),
                                          req[q].ext))]

\* C17: a directory request whose file, and its default-extension variant, is
\* missing in every candidate ends with a not-found error, having attempted
\* every candidate in order with at most two loads each.
C17_MissingEverywhereIsNotFound ==
    \A q \in Req :
        ( /\ req[q].kind = "dir" /\ req[q].pc = "done"
          /\ ~isFileHidden(req[q].raw)
          /\ \A j \in DOMAIN AllAttempts(q) :
                /\ AllAttempts(q)[j] # Null
                /\ Missing(files, AllAttempts(q)[j]) )
        => /\ isNotFound(req[q].err)
           /\ req[q].loads = AllAttempts(q)

\* C18: a key that holds a full record holds a full record in every later
\* state: no step removes the entry or replaces it with a value without data.
C18_FullRecordStaysFull ==
    [][\A k \in DOMAIN cache :
          HasData(cache[k]) => k \in DOMAIN cache' /\ HasData(cache'[k])]_vars

\* a request of the css handler came in when its path held a full record,
\* and the record is in place after it
C18_Witness ==
    \E q \in Req :
        /\ req[q].kind = "file" /\ req[q].pc = "done"
        /\ req[q].outKind = "record"
        /\ HasData(CacheGet(cache, req[q].raw))

\* A component of the path, other than "..", starts with a dot.
HiddenPath(path) ==
    \E j \in DOMAIN Split(path) :
        LET seg == Split(path)[j]
        IN Len(seg) >= 2 /\ seg[1] = "." /\ seg # <<".", ".">>

\* C19: with showHidden not enabled, a directory request for a hidden path
\* ends with not-found at once: no File.load, so no response, no cache lookup,
\* no stat, no read and no transformation.
C19_HiddenIsNotFoundAtOnce ==
    \A q \in Req :
        (req[q].kind = "dir" /\ ~ShowHidden /\ HiddenPath(req[q].raw)) =>
            /\ req[q].pc = "done"
            /\ req[q].err = NotFound
            /\ req[q].loads = <<>> /\ req[q].r = 0
            /\ req[q].stats = 0 /\ req[q].reads = 0 /\ req[q].procs = 0
            /\ req[q].fds = 0

C19_Witness ==
    \E q \in Req :
        /\ req[q].kind = "dir" /\ HiddenPath(req[q].raw)
        /\ req[q].pc = "done" /\ isNotFound(req[q].err)
        /\ req[q].loads = <<>>

\* C20: a marshal that missed the cache and whose read or transformation
\* fails writes nothing: the step that ends it leaves the cache as it was.
C20_FailedMarshalLeavesCache ==
    [][\A q \in Req :
          ( \/ req[q].pc = "read" /\ req'[q].pc = "done"
            \/ req[q].pc = "process" /\ req'[q].err = ProcessError )
          => cache' = cache]_vars

\* the transformation of a request failed, its path has no entry, and another
\* request for the path missed in marshal and transformed
C20_Witness ==
    \E q1, q2 \in Req :
        /\ req[q1].pc = "done" /\ req[q1].err = ProcessError
        /\ req[q1].procs = 1
        /\ q2 # q1 /\ req[q2].path = req[q1].path
        /\ req[q2].r # req[q1].r
        /\ req[q2].pc = "process" /\ req[q2].procs = 1
        /\ req[q1].path \notin DOMAIN cache

====
